---- MODULE Spec2Model ----
(***************************************************************************)
(* Model of src/perception/align_to_aruco.py: the marker acquisition loop  *)
(* of main(), the AlignToAruco constructor, compute_difference and the     *)
(* three blocking base goals of align_to_marker, together with the two     *)
(* collaborators the program talks to (the tf buffer and the trajectory    *)
(* action server) and the operator's interrupt.                            *)
(*                                                                         *)
(* Units.  Time is counted in seconds, lengths in quarter metres and       *)
(* angles in quarter turns (pi = 2), so that the arithmetic of             *)
(* compute_difference is exact on the inputs the model draws.              *)
(***************************************************************************)
EXTENDS Integers, Sequences, FiniteSets, TLC

VARIABLES
    pc,            \* position of the control thread in main()
    now,           \* time.time()
    start_time,    \* main: start_time
    ok,            \* rclpy.ok()
    pending,       \* a callback is ready for the node's executor
    marker,        \* what the tf buffer returns once the marker resolves
    trans_base,    \* main: trans_base
    missing,       \* main: missing (the attempt log)
    attempts,      \* number of lookup attempts made so far
    last_lookup,   \* how the latest lookup attempt ended
    lookups,       \* how each lookup attempt ended, in order
    align,         \* the AlignToAruco object: trans_base, offset
    correction,    \* align_to_marker: phi, dist, final_theta
    step,          \* which send_base_goal_blocking call is running (1..3)
    goals,         \* goals handed to send_goal_async, in order, each with
                   \* the call (1..3, lines 113-115) that sent it
    gstate,        \* the action server's state of each goal
    results,       \* what send_base_goal_blocking observed for each goal
    align_ret,     \* what align_to_marker returned, once it has
    exc,           \* exception in flight ("none" when there is none)
    interrupted,   \* the operator has pressed Ctrl-C
    shutdown_called, \* main has called rclpy.shutdown()
    outcome        \* how the process ended

vars == <<pc, now, start_time, ok, pending, marker, trans_base, missing,
          attempts, last_lookup, lookups, align, correction, step, goals, gstate,
          results, align_ret, exc, interrupted, shutdown_called, outcome>>

\* Python's None, where a transform, an object or a tuple is expected
None == [none |-> TRUE]

\* align_to_marker has not returned
NotReturned == [returned |-> FALSE]

----------------------------------------------------------------------------
(* Bounds and program constants *)

\* main: timeout_sec is 120.0 s in the source; the model runs the same loop
\* with a short timeout so that the attempt log stays small.
timeout_sec == 2

\* time.sleep(1): the poll interval, in seconds
poll_interval == 1

\* spin_once may block this many seconds beyond timeout_sec + poll_interval
MaxOverrun == 2

\* AlignToAruco.__init__: offset = 0.75 m, in quarter metres
DefaultOffset == 3

\* np.pi in quarter turns
Pi == 2

----------------------------------------------------------------------------
(* Transforms and compute_difference *)

\* A unit quaternion (x, y, z, w) is written by an integer vector along it;
\* quaternion_matrix divides by the squared norm, so the matrix is the same.
Quats ==
    { [x |-> 0, y |-> 0, z |-> 0, w |-> 1],     \* identity
      [x |-> 0, y |-> 0, z |-> 1, w |-> 1],     \* yaw  +1 quarter turn
      [x |-> 0, y |-> 0, z |-> 1, w |-> 0],     \* yaw   2 quarter turns
      [x |-> 0, y |-> 0, z |-> -1, w |-> 1],    \* yaw  -1 quarter turn
      [x |-> 1, y |-> 0, z |-> 0, w |-> 0],     \* roll  2 quarter turns
      [x |-> 0, y |-> 1, z |-> 0, w |-> 1] }    \* pitch 1 quarter turn

\* tf_transformations.quaternion_matrix, rotation part
quaternion_matrix(q) ==
    LET n  == q.x * q.x + q.y * q.y + q.z * q.z + q.w * q.w
        xx == (2 * q.x * q.x) \div n
        yy == (2 * q.y * q.y) \div n
        zz == (2 * q.z * q.z) \div n
        xy == (2 * q.x * q.y) \div n
        xz == (2 * q.x * q.z) \div n
        yz == (2 * q.y * q.z) \div n
        xw == (2 * q.x * q.w) \div n
        yw == (2 * q.y * q.w) \div n
        zw == (2 * q.z * q.w) \div n
    IN  << <<1 - yy - zz, xy - zw, xz + yw>>,
           <<xy + zw, 1 - xx - zz, yz - xw>>,
           <<xz - yw, yz + xw, 1 - xx - yy>> >>

\* math.atan2 in quarter turns, on the points of the axes
atan2(y, x) ==
    CASE y = 0 /\ x >= 0 -> 0
      [] y = 0 /\ x < 0  -> Pi
      [] x = 0 /\ y > 0  -> 1
      [] x = 0 /\ y < 0  -> -1

\* math.sqrt on perfect squares
sqrt(n) == CHOOSE r \in 0..n : r * r = n

\* tf_transformations.euler_from_quaternion (axes 'sxyz'), the yaw:
\* atan2(M[1,0], M[0,0]) unless both vanish (gimbal lock), and 0 then
euler_yaw(q) ==
    LET M == quaternion_matrix(q)
    IN  IF M[1][1] * M[1][1] + M[2][1] * M[2][1] > 0
        THEN atan2(M[2][1], M[1][1])
        ELSE 0

\* (an offset point taken on the other side of the marker, (0, +offset, 0))
P_base_far_side(t, offset) ==
    LET R == quaternion_matrix(t.q)
        X == << R[1][2] * offset, R[2][2] * offset >>
    IN  << X[1] + t.tx, X[2] + t.ty >>

\* compute_difference, lines 47-67: the target point P_base = R . P_dash + P
P_base(t, offset) ==
    LET R == quaternion_matrix(t.q)
        X == << R[1][2] * (0 - offset), R[2][2] * (0 - offset) >>
    IN  << X[1] + t.tx, X[2] + t.ty >>

\* (a final rotation that adds phi where line 77 subtracts it)
compute_difference_plus_phi(t, offset) ==
    LET base_position_x == P_base(t, offset)[1]
        base_position_y == P_base(t, offset)[2]
        phi        == atan2(base_position_y, base_position_x)
        dist       == sqrt(base_position_x * base_position_x
                           + base_position_y * base_position_y)
        z_rot_base == euler_yaw(t.q)
    IN  [phi |-> phi, dist |-> dist, theta |-> phi + z_rot_base + Pi]

\* lines 39-79
compute_difference(t, offset) ==
    LET base_position_x == P_base(t, offset)[1]
        base_position_y == P_base(t, offset)[2]
        phi        == atan2(base_position_y, base_position_x)
        dist       == sqrt(base_position_x * base_position_x
                           + base_position_y * base_position_y)
        z_rot_base == euler_yaw(t.q)
    IN  [phi |-> phi, dist |-> dist, theta |-> (0 - phi) + z_rot_base + Pi]

\* The markers the tf buffer can resolve to in this model: the degenerate
\* one (target at the origin), one straight ahead, one turned half round.
Markers ==
    { [tx |-> 0, ty |-> 3, tz |-> 1, q |-> [x |-> 0, y |-> 0, z |-> 0, w |-> 1]],
      [tx |-> 3, ty |-> 3, tz |-> 1, q |-> [x |-> 0, y |-> 0, z |-> 0, w |-> 1]],
      [tx |-> 0, ty |-> 1, tz |-> 1, q |-> [x |-> 0, y |-> 0, z |-> 1, w |-> 0]] }

----------------------------------------------------------------------------
(* State *)

\* the two kinds of entry main() appends to missing
FrameEntry == "base_link -> bowl"
ExceptionEntry == "exception"

\* action_msgs GoalStatus: the terminal statuses a result can carry
Terminal == {"SUCCEEDED", "ABORTED", "CANCELED"}

\* positions of the control thread inside the while loop of main()
AcqLoop == {"loop_head", "lookup", "check_timeout", "spin_once", "sleep"}

\* positions inside the try block of main()
TryBlock == {"construct", "compute", "send", "wait_accept", "wait_result"}

Init ==
    /\ pc = "loop_head"
    /\ now = 0
    /\ start_time = 0
    /\ ok = TRUE
    /\ pending = FALSE
    /\ marker \in Markers
    /\ trans_base = None
    /\ missing = << >>
    /\ attempts = 0
    /\ last_lookup = "none"
    /\ lookups = << >>
    /\ align = None
    /\ correction = None
    /\ step = 0
    /\ goals = << >>
    /\ gstate = << >>
    /\ results = << >>
    /\ align_ret = NotReturned
    /\ exc = "none"
    /\ interrupted = FALSE
    /\ shutdown_called = FALSE
    /\ outcome = "running"

acq_vars == <<trans_base, missing, attempts, last_lookup, lookups>>
motion_vars == <<align, correction, step, goals, gstate, results, align_ret>>
env_vars == <<ok, pending, marker, interrupted>>
end_vars == <<exc, shutdown_called, outcome>>

----------------------------------------------------------------------------
(* main(): the marker acquisition loop, lines 138-170 *)

\* line 138: while rclpy.ok()
LoopHead ==
    /\ pc = "loop_head"
    /\ pc' = IF ok THEN "lookup" ELSE "after_loop"
    /\ UNCHANGED <<now, start_time, acq_vars, motion_vars, env_vars, end_vars>>

\* (a loop without the break of line 150)
LookupFound_nobreak ==
    /\ pc = "lookup"
    /\ attempts' = attempts + 1
    /\ last_lookup' = "found"
    /\ lookups' = Append(lookups, "found")
    /\ trans_base' = marker
    /\ pc' = "check_timeout"
    /\ UNCHANGED <<now, start_time, missing, motion_vars, env_vars, end_vars>>

\* lines 142-150: can_transform is true, lookup_transform returns, break
LookupFound ==
    /\ pc = "lookup"
    /\ attempts' = attempts + 1
    /\ last_lookup' = "found"
    /\ lookups' = Append(lookups, "found")
    /\ trans_base' = marker
    /\ pc' = "after_loop"
    /\ UNCHANGED <<now, start_time, missing, motion_vars, env_vars, end_vars>>

\* (a loop that looked at the clock only in its except clause)
LookupNotResolvable_unchecked ==
    /\ pc = "lookup"
    /\ attempts' = attempts + 1
    /\ last_lookup' = "not_resolvable"
    /\ lookups' = Append(lookups, "not_resolvable")
    /\ missing' = Append(missing, FrameEntry)
    /\ pc' = "spin_once"
    /\ UNCHANGED <<now, start_time, trans_base, motion_vars, env_vars, end_vars>>

\* lines 151-152: can_transform is false
LookupNotResolvable ==
    /\ pc = "lookup"
    /\ attempts' = attempts + 1
    /\ last_lookup' = "not_resolvable"
    /\ lookups' = Append(lookups, "not_resolvable")
    /\ missing' = Append(missing, FrameEntry)
    /\ pc' = "check_timeout"
    /\ UNCHANGED <<now, start_time, trans_base, motion_vars, env_vars, end_vars>>

\* (a loop whose except clause ended the search)
LookupException_abort ==
    /\ pc = "lookup"
    /\ attempts' = attempts + 1
    /\ last_lookup' = "exception"
    /\ lookups' = Append(lookups, "exception")
    /\ missing' = Append(missing, ExceptionEntry)
    /\ pc' = "after_loop"
    /\ UNCHANGED <<now, start_time, trans_base, motion_vars, env_vars, end_vars>>

\* (an except clause that logged the frame pair like the else branch)
LookupException_same_entry ==
    /\ pc = "lookup"
    /\ attempts' = attempts + 1
    /\ last_lookup' = "exception"
    /\ lookups' = Append(lookups, "exception")
    /\ missing' = Append(missing, FrameEntry)
    /\ pc' = "check_timeout"
    /\ UNCHANGED <<now, start_time, trans_base, motion_vars, env_vars, end_vars>>

\* lines 153-155: can_transform or lookup_transform raises TransformException
LookupException ==
    /\ pc = "lookup"
    /\ attempts' = attempts + 1
    /\ last_lookup' = "exception"
    /\ lookups' = Append(lookups, "exception")
    /\ missing' = Append(missing, ExceptionEntry)
    /\ pc' = "check_timeout"
    /\ UNCHANGED <<now, start_time, trans_base, motion_vars, env_vars, end_vars>>

\* line 165: elapsed = time.time() - start_time
elapsed == now - start_time

\* (a comparison with >= where line 166 has >)
CheckTimeout_at_timeout ==
    /\ pc = "check_timeout"
    /\ pc' = IF elapsed >= timeout_sec THEN "after_loop" ELSE "spin_once"
    /\ UNCHANGED <<now, start_time, acq_vars, motion_vars, env_vars, end_vars>>

\* lines 165-167: break once elapsed > timeout_sec
CheckTimeout ==
    /\ pc = "check_timeout"
    /\ pc' = IF elapsed > timeout_sec THEN "after_loop" ELSE "spin_once"
    /\ UNCHANGED <<now, start_time, acq_vars, motion_vars, env_vars, end_vars>>

\* line 169: rclpy.spin_once(node) has no timeout; it returns after running
\* one ready callback, or when the context has been shut down
SpinOnce ==
    /\ pc = "spin_once"
    /\ pending \/ ~ok
    /\ pending' = FALSE
    /\ pc' = "sleep"
    /\ UNCHANGED <<now, start_time, acq_vars, motion_vars, ok, marker,
                   interrupted, end_vars>>

\* line 169: with no callback ready spin_once keeps waiting while time passes
SpinOnceBlocked ==
    /\ pc = "spin_once"
    /\ ~pending /\ ok
    /\ elapsed < timeout_sec + poll_interval + MaxOverrun
    /\ now' = now + 1
    /\ UNCHANGED <<pc, start_time, acq_vars, motion_vars, env_vars, end_vars>>

\* line 170: time.sleep(1)
Sleep ==
    /\ pc = "sleep"
    /\ now' = now + poll_interval
    /\ pc' = "loop_head"
    /\ UNCHANGED <<start_time, acq_vars, motion_vars, env_vars, end_vars>>

\* (a main() that went on to align whatever the loop had found)
AfterLoop_unguarded ==
    /\ pc = "after_loop"
    /\ pc' = "construct"
    /\ UNCHANGED <<now, start_time, acq_vars, motion_vars, env_vars, end_vars>>

\* lines 172-177: no transform: log the timeout, rclpy.shutdown(), return;
\* otherwise enter the try block
AfterLoop ==
    /\ pc = "after_loop"
    /\ IF trans_base = None
       THEN /\ shutdown_called' = TRUE
            /\ outcome' = "timeout_return"
            /\ pc' = "exited"
       ELSE /\ pc' = "construct"
            /\ UNCHANGED <<shutdown_called, outcome>>
    /\ UNCHANGED <<now, start_time, acq_vars, motion_vars, env_vars, exc>>

----------------------------------------------------------------------------
(* AlignToAruco: constructor and align_to_marker, lines 22-37 and 81-115 *)

\* (a try statement without its finally clause)
Raise_no_finally(e) ==
    /\ exc' = e
    /\ pc' = "exited"

\* an exception leaves the try block through the finally clause
Raise(e) ==
    /\ exc' = e
    /\ pc' = "finally"

\* lines 25-37: store the transform and the offset, then wait_for_server;
\* sys.exit() when the server is not there
Construct ==
    /\ pc = "construct"
    /\ align' = [trans_base |-> trans_base, offset |-> DefaultOffset]
    /\ \E available \in BOOLEAN :
          IF available
          THEN /\ pc' = "compute"
               /\ UNCHANGED exc
          ELSE Raise("SystemExit")
    /\ UNCHANGED <<now, start_time, acq_vars, correction, step, goals, gstate,
                   results, align_ret, env_vars, shutdown_called, outcome>>

\* (a compute_difference that flattened z in the transform itself)
ComputeDifference_in_place ==
    /\ pc = "compute"
    /\ align.trans_base # None
    /\ align' = [align EXCEPT !.trans_base.tz = 0]
    /\ correction' = compute_difference(align.trans_base, align.offset)
    /\ step' = 1
    /\ pc' = "send"
    /\ UNCHANGED <<now, start_time, acq_vars, goals, gstate, results,
                   align_ret, env_vars, end_vars>>

\* line 82: phi, dist, final_theta = self.compute_difference()
\* (reading the fields of a transform that is None raises AttributeError)
ComputeDifference ==
    /\ pc = "compute"
    /\ IF align.trans_base = None
       THEN /\ Raise("AttributeError")
            /\ UNCHANGED <<correction, step>>
       ELSE /\ correction' = compute_difference(align.trans_base, align.offset)
            /\ step' = 1
            /\ pc' = "send"
            /\ UNCHANGED exc
    /\ UNCHANGED <<now, start_time, acq_vars, align, goals, gstate, results,
                   align_ret, env_vars, shutdown_called, outcome>>

\* (a sequencer that drove forward before turning would send these)
StepCommand_swapped(k, c) ==
    CASE k = 1 -> [joint |-> "translate_mobile_base", inc |-> c.dist]
      [] k = 2 -> [joint |-> "rotate_mobile_base", inc |-> c.phi]
      [] k = 3 -> [joint |-> "rotate_mobile_base", inc |-> c.theta]

\* lines 113-115: the joint and the increment of the k-th call
StepCommand(k, c) ==
    CASE k = 1 -> [joint |-> "rotate_mobile_base", inc |-> c.phi]
      [] k = 2 -> [joint |-> "translate_mobile_base", inc |-> c.dist]
      [] k = 3 -> [joint |-> "rotate_mobile_base", inc |-> c.theta]

\* lines 113-115: where control goes when the k-th call returns
AfterStep(k) ==
    IF k < 3 THEN [pc |-> "send", step |-> k + 1]
             ELSE [pc |-> "finally", step |-> k]

\* lines 98-100: a rejected goal: log an error and return from
\* send_base_goal_blocking; align_to_marker goes on with its next line
OnRejected(k) == AfterStep(k)

\* (a sequencer that did not wait for the result of an accepted goal)
OnAccepted_nowait(k) == AfterStep(k)

\* line 102: an accepted goal: get_result_async and wait for the result
OnAccepted(k) == [pc |-> "wait_result", step |-> k]

\* (a sequencer that gave up after a step that did not succeed)
OnNotSucceeded_abort(k) == [pc |-> "finally", step |-> k]

\* (a sequencer that sent a step again when it did not succeed)
OnNotSucceeded_retry(k) == [pc |-> "send", step |-> k]

\* lines 106-109: a terminal status other than SUCCEEDED: log a warning
OnNotSucceeded(k) == AfterStep(k)

\* lines 110-111: SUCCEEDED: log it
OnSucceeded(k) == AfterStep(k)

\* (an align_to_marker that told its caller which step was refused)
align_to_marker_outcome(res) ==
    IF \E k \in 1..Len(res) : res[k] = "rejected"
    THEN [failedStep |-> CHOOSE k \in 1..Len(res) :
                            /\ res[k] = "rejected"
                            /\ \A j \in 1..(k - 1) : res[j] # "rejected"]
    ELSE [ok |-> TRUE]

\* lines 98-100 and 113-115: send_base_goal_blocking has no return value and
\* align_to_marker ends after its third call without a return statement:
\* the call yields None whatever the three steps observed
align_to_marker_return(res) == None

\* lines 85-94: build the goal and send_goal_async; a context that has been
\* shut down sends nothing and raises
SendGoal ==
    /\ pc = "send"
    /\ IF ok
       THEN /\ goals' = Append(goals, [call |-> step,
                                        cmd |-> StepCommand(step, correction)])
            /\ gstate' = Append(gstate, "pending")
            /\ pc' = "wait_accept"
            /\ UNCHANGED exc
       ELSE /\ Raise("RCLError")
            /\ UNCHANGED <<goals, gstate>>
    /\ UNCHANGED <<now, start_time, acq_vars, align, correction, step, results,
                   align_ret, env_vars, shutdown_called, outcome>>

\* lines 95-100: spin until the server has answered the goal request
WaitAccept ==
    /\ pc = "wait_accept"
    /\ gstate[step] # "pending"
    /\ LET to == IF gstate[step] = "rejected" THEN OnRejected(step)
                                               ELSE OnAccepted(step)
           res == IF gstate[step] = "rejected" THEN Append(results, "rejected")
                                               ELSE results
       IN  /\ results' = res
           /\ pc' = to.pc
           /\ step' = to.step
           /\ align_ret' = IF to.pc = "finally"
                           THEN align_to_marker_return(res)
                           ELSE align_ret
    /\ UNCHANGED <<now, start_time, acq_vars, align, correction, goals, gstate,
                   env_vars, end_vars>>

\* lines 103-111: spin until the result is there, log its status
WaitResult ==
    /\ pc = "wait_result"
    /\ gstate[step] \in Terminal
    /\ results' = Append(results, gstate[step])
    /\ LET to == IF gstate[step] = "SUCCEEDED" THEN OnSucceeded(step)
                                                ELSE OnNotSucceeded(step)
       IN  /\ pc' = to.pc
           /\ step' = to.step
           /\ align_ret' = IF to.pc = "finally"
                           THEN align_to_marker_return(results')
                           ELSE align_ret
    /\ UNCHANGED <<now, start_time, acq_vars, align, correction, goals, gstate,
                   env_vars, end_vars>>

\* lines 183-186: except KeyboardInterrupt: pass; finally: rclpy.shutdown();
\* any other exception goes on out of main()
Finally ==
    /\ pc = "finally"
    /\ shutdown_called' = TRUE
    /\ outcome' = CASE exc \in {"none", "KeyboardInterrupt"} -> "returned"
                    [] exc = "SystemExit" -> "SystemExit"
                    [] OTHER -> "error"
    /\ pc' = "exited"
    /\ UNCHANGED <<now, start_time, acq_vars, motion_vars, env_vars, exc>>

----------------------------------------------------------------------------
(* The collaborators and the operator *)

\* the trajectory action server answers a goal request
ActuatorAccept ==
    /\ \E k \in 1..Len(gstate) :
          /\ gstate[k] = "pending"
          /\ gstate' = [gstate EXCEPT ![k] = "executing"]
    /\ UNCHANGED <<pc, now, start_time, acq_vars, align, correction, step,
                   goals, results, align_ret, env_vars, end_vars>>

ActuatorReject ==
    /\ \E k \in 1..Len(gstate) :
          /\ gstate[k] = "pending"
          /\ gstate' = [gstate EXCEPT ![k] = "rejected"]
    /\ UNCHANGED <<pc, now, start_time, acq_vars, align, correction, step,
                   goals, results, align_ret, env_vars, end_vars>>

\* the trajectory action server ends an accepted goal
ActuatorFinish ==
    /\ \E k \in 1..Len(gstate), s \in Terminal :
          /\ gstate[k] = "executing"
          /\ gstate' = [gstate EXCEPT ![k] = s]
    /\ UNCHANGED <<pc, now, start_time, acq_vars, align, correction, step,
                   goals, results, align_ret, env_vars, end_vars>>

\* a message arrives for a subscription of the node (the tf listener)
DeliverCallback ==
    /\ pc \in AcqLoop
    /\ ~pending
    /\ pending' = TRUE
    /\ UNCHANGED <<pc, now, start_time, acq_vars, motion_vars, ok, marker,
                   interrupted, end_vars>>

\* the context is shut down from outside while main() is acquiring
ExternalShutdown ==
    /\ pc \in AcqLoop
    /\ ok
    /\ ok' = FALSE
    /\ UNCHANGED <<pc, now, start_time, acq_vars, motion_vars, pending, marker,
                   interrupted, end_vars>>

\* Ctrl-C: KeyboardInterrupt is raised in the control thread.  Lines 138-177
\* are outside the try statement, so there it ends the process; inside the
\* try block it is caught and the finally clause runs.
Interrupt ==
    /\ ~interrupted
    /\ pc \in AcqLoop \cup {"after_loop"} \cup TryBlock
    /\ interrupted' = TRUE
    /\ IF pc \in TryBlock
       THEN /\ Raise("KeyboardInterrupt")
            /\ UNCHANGED outcome
       ELSE /\ exc' = "KeyboardInterrupt"
            /\ outcome' = "uncaught"
            /\ pc' = "exited"
    /\ UNCHANGED <<now, start_time, acq_vars, motion_vars, ok, pending, marker,
                   shutdown_called>>

----------------------------------------------------------------------------

Next ==
    \/ LoopHead
    \/ LookupFound
    \/ LookupNotResolvable
    \/ LookupException
    \/ CheckTimeout
    \/ SpinOnce
    \/ SpinOnceBlocked
    \/ Sleep
    \/ AfterLoop
    \/ Construct
    \/ ComputeDifference
    \/ SendGoal
    \/ WaitAccept
    \/ WaitResult
    \/ Finally
    \/ ActuatorAccept
    \/ ActuatorReject
    \/ ActuatorFinish
    \/ DeliverCallback
    \/ ExternalShutdown
    \/ Interrupt

Spec == Init /\ [][Next]_vars

----------------------------------------------------------------------------
(* Properties of the motion sequence *)

\* goals the action server has neither rejected nor ended
InFlight == {k \in 1..Len(gstate) : gstate[k] \in {"pending", "executing"}}

\* align_to_marker has returned without an exception
AlignReturned ==
    /\ pc \in {"finally", "exited"}
    /\ exc = "none"
    /\ correction # None

\* rotate by phi, translate by dist, rotate by theta, for the correction held
Expected ==
    << [joint |-> "rotate_mobile_base", inc |-> correction.phi],
       [joint |-> "translate_mobile_base", inc |-> correction.dist],
       [joint |-> "rotate_mobile_base", inc |-> correction.theta] >>

AllSucceeded == \A k \in 1..Len(results) : results[k] = "SUCCEEDED"

\* C1: once the action server has rejected the goal of step k, no goal of a
\* later step is submitted: the goals sent never number more than k.
C1_RejectionEndsSequence ==
    \A k \in 1..Len(gstate) : gstate[k] = "rejected" => Len(goals) <= k

\* C2: while every result observed is SUCCEEDED, the goals sent are the
\* first goals of rotate(phi), translate(dist), rotate(theta), built from the
\* correction of the one compute_difference call on the acquired transform;
\* a goal is sent only when the result of every earlier goal has been
\* observed; and after three SUCCEEDED results all three have been sent and
\* align_to_marker has returned.
C2_SucceededSequence ==
    /\ (goals # << >> /\ AllSucceeded) =>
          /\ correction = compute_difference(trans_base, DefaultOffset)
          /\ Len(goals) <= Len(results) + 1
          /\ \A k \in 1..Len(goals) :
                /\ goals[k] = [call |-> k, cmd |-> Expected[k]]
                /\ k <= Len(results) => gstate[k] = "SUCCEEDED"
    /\ (Len(results) = 3 /\ AllSucceeded) =>
          /\ Len(goals) = 3
          /\ pc \in {"finally", "exited"}

\* C2 witness: three SUCCEEDED results and a normal end of the process
C2_Witness ==
    /\ Len(results) = 3
    /\ AllSucceeded
    /\ pc = "exited"
    /\ outcome = "returned"
    /\ ~interrupted
    /\ correction.phi # correction.dist

\* C3: when the result observed for step k < 3 is a terminal status other
\* than SUCCEEDED and no exception is under way, the control thread is at
\* the submission of step k+1 or has submitted it; when align_to_marker
\* returns after such a result, all three goals have been sent in order.
C3_ContinuesAfterNotSucceeded ==
    \A k \in 1..Len(results) :
        (results[k] \in Terminal \ {"SUCCEEDED"} /\ exc = "none") =>
            /\ k < 3 =>
                  \/ pc = "send" /\ step = k + 1 /\ Len(goals) = k
                  \/ /\ Len(goals) > k
                     /\ goals[k + 1] = [call |-> k + 1, cmd |-> Expected[k + 1]]
            /\ pc \in {"finally", "exited"} =>
                  /\ Len(goals) = 3
                  /\ \A j \in 1..3 : goals[j] = [call |-> j, cmd |-> Expected[j]]

\* C3 witness: the first goal ended ABORTED and the other two were sent
C3_Witness ==
    /\ Len(results) >= 1
    /\ results[1] = "ABORTED"
    /\ Len(goals) = 3
    /\ goals[2].cmd.joint = "translate_mobile_base"

\* C4: no call of lines 113-115 sends its goal twice, at most three goals
\* are sent, and when align_to_marker returns with no goal rejected each of
\* the three calls has sent exactly one.
C4_NoRetry ==
    /\ Len(goals) <= 3
    /\ \A i, j \in 1..Len(goals) : i # j => goals[i].call # goals[j].call
    /\ (AlignReturned /\ \A k \in 1..Len(gstate) : gstate[k] # "rejected") =>
          {goals[i].call : i \in 1..Len(goals)} = 1..3

\* C4 witness: a sequence with a goal that did not succeed has ended with
\* three goals sent
C4_Witness ==
    /\ AlignReturned
    /\ Len(goals) = 3
    /\ \E k \in 1..3 : results[k] \in {"ABORTED", "CANCELED"}
    /\ \A k \in 1..3 : gstate[k] # "rejected"

\* C5: at most one goal is in flight (sent, and neither rejected nor ended).
C5_OneInFlight == Cardinality(InFlight) <= 1

\* C5 witness: the third goal is in flight after the first two have ended
C5_Witness ==
    /\ Len(goals) = 3
    /\ InFlight = {3}
    /\ gstate[3] = "executing"

----------------------------------------------------------------------------
(* Properties of the acquisition loop and of the end of the run *)

\* C6: a goal is sent only after a successful lookup; a run whose loop ended
\* with no transform sends none and gets no further than the return of
\* line 177, which comes after rclpy.shutdown().
C6_NoMotionWithoutTransform ==
    /\ goals # << >> => (trans_base # None /\ last_lookup = "found")
    /\ (trans_base = None /\ pc \notin AcqLoop) =>
          /\ pc \in {"after_loop", "exited"}
          /\ goals = << >>
          /\ align = None
    /\ outcome = "timeout_return" =>
          /\ trans_base = None
          /\ shutdown_called
          /\ goals = << >>
          /\ pc = "exited"

\* C6 witness: the loop timed out after failed attempts and main returned
C6_Witness ==
    /\ outcome = "timeout_return"
    /\ elapsed > timeout_sec
    /\ Len(missing) >= 2
    /\ ok

\* C7: while the control thread is in the acquisition loop, no more than
\* timeout_sec + poll_interval has elapsed since start_time.
C7_LoopEndsInTime ==
    pc \in AcqLoop => elapsed <= timeout_sec + poll_interval

\* C8: once a lookup has succeeded, the loop has been left, trans_base is
\* the transform that lookup returned, that lookup was the last one made,
\* and the attempt log has one entry for each of the failed lookups before.
C8_FirstSuccessEndsLoop ==
    trans_base # None =>
        /\ trans_base = marker
        /\ last_lookup = "found"
        /\ pc \notin AcqLoop
        /\ Len(missing) = attempts - 1

\* C8 witness: one failure, then success, with one poll interval shorter
\* than the timeout
C8_Witness ==
    /\ trans_base # None
    /\ Len(missing) = 1
    /\ Len(missing) * poll_interval < timeout_sec
    /\ attempts = 2

\* C9: after the operator's interrupt the control thread sends no goal: it
\* is in the finally clause or has ended, and when it has ended
\* rclpy.shutdown() has been called.
C9_InterruptReleases ==
    interrupted =>
        /\ pc \in {"finally", "exited"}
        /\ pc = "exited" => shutdown_called

\* C10: a lookup that raised is recorded as the last entry of the attempt
\* log, raises nothing in main, and does not end the loop: after it the
\* control thread is still in the loop unless the timeout was exceeded, the
\* context was shut down or the operator interrupted.
C10_ExceptionIsRetried ==
    last_lookup = "exception" =>
        /\ Len(missing) = attempts
        /\ missing[attempts] = ExceptionEntry
        /\ trans_base = None
        /\ ~interrupted => exc = "none"
        /\ pc \in AcqLoop \cup {"after_loop", "exited"}
        /\ pc \notin AcqLoop =>
              elapsed > timeout_sec \/ ~ok \/ interrupted

\* C10 witness: a lookup made after one that raised, within the timeout,
\* has found the marker
C10_Witness ==
    /\ trans_base # None
    /\ Len(missing) >= 1
    /\ missing[Len(missing)] = ExceptionEntry
    /\ elapsed <= timeout_sec

----------------------------------------------------------------------------
(* compute_difference on its own: every transform and offset of a grid *)

\* translations reach from -MaxCoord to MaxCoord, offsets from 0 to MaxOffset
MaxCoord == 3
MaxOffset == 3

\* the inputs on which atan2 and sqrt above are exact: the target point
\* lies on an axis of the base frame
GeomInputs ==
    { in \in [tx : -MaxCoord..MaxCoord, ty : -MaxCoord..MaxCoord, tz : {0, 1},
              q : Quats] \X (0..MaxOffset) :
        LET p == P_base(in[1], in[2]) IN p[1] = 0 \/ p[2] = 0 }

\* an AlignToAruco object built on such an input, about to run line 82
GeomInit ==
    /\ \E in \in GeomInputs :
          /\ marker = in[1]
          /\ trans_base = in[1]
          /\ align = [trans_base |-> in[1], offset |-> in[2]]
    /\ pc = "compute"
    /\ now = 0
    /\ start_time = 0
    /\ ok = TRUE
    /\ pending = FALSE
    /\ missing = << >>
    /\ attempts = 1
    /\ last_lookup = "found"
    /\ lookups = << "found" >>
    /\ correction = None
    /\ step = 0
    /\ goals = << >>
    /\ gstate = << >>
    /\ results = << >>
    /\ align_ret = NotReturned
    /\ exc = "none"
    /\ interrupted = FALSE
    /\ shutdown_called = FALSE
    /\ outcome = "running"

GeomNext == ComputeDifference

GeomSpec == GeomInit /\ [][GeomNext]_vars

\* C11: the correction computed satisfies phi + theta = marker yaw + pi: a
\* robot at heading 0 that turns by phi and then by theta faces the marker
\* yaw plus a half turn.
C11_HeadingRoundTrip ==
    correction # None =>
        0 + correction.phi + correction.theta
            = euler_yaw(align.trans_base.q) + Pi

\* C11 witness: a correction with a turn to the side (phi not 0) for a
\* marker that is itself turned
C11_Witness ==
    /\ correction # None
    /\ correction.phi = 1
    /\ euler_yaw(align.trans_base.q) = -1
    /\ correction.theta = 0

\* C12: dist is never negative; it is 0 exactly when the rotated offset
\* point cancels the marker's planar position, R.(0, -offset, 0) + (x, y) =
\* 0; and for identity rotation and translation (0, offset, 0) both dist and
\* phi are 0.
C12_DegenerateTarget ==
    correction # None =>
        LET t == align.trans_base
            o == align.offset
            R == quaternion_matrix(t.q)
        IN  /\ correction.dist >= 0
            /\ correction.dist = 0 <=>
                  (t.tx = o * R[1][2] /\ t.ty = o * R[2][2])
            /\ (t.q = [x |-> 0, y |-> 0, z |-> 0, w |-> 1]
                  /\ t.tx = 0 /\ t.ty = o /\ t.tz = 0) =>
                  (correction.dist = 0 /\ correction.phi = 0)

\* C12 witness: the marker at (0, offset, 0) with identity rotation and the
\* default offset
C12_Witness ==
    /\ correction # None
    /\ align.trans_base = [tx |-> 0, ty |-> DefaultOffset, tz |-> 0,
                           q |-> [x |-> 0, y |-> 0, z |-> 0, w |-> 1]]
    /\ align.offset = DefaultOffset
    /\ correction.dist = 0
    /\ correction.phi = 0

----------------------------------------------------------------------------
(* What align_to_marker hands back *)

Rejections == {k \in 1..Len(results) : results[k] = "rejected"}

----------------------------------------------------------------------------
(* The end of a run *)

\* a step of the control thread of main()
ControlStep ==
    \/ LoopHead
    \/ LookupFound
    \/ LookupNotResolvable
    \/ LookupException
    \/ CheckTimeout
    \/ SpinOnce
    \/ Sleep
    \/ AfterLoop
    \/ Construct
    \/ ComputeDifference
    \/ SendGoal
    \/ WaitAccept
    \/ WaitResult
    \/ Finally

\* the control thread keeps running, the action server answers every goal
\* request and ends every goal it has accepted
FairSpec ==
    /\ Init
    /\ [][Next]_vars
    /\ WF_vars(ControlStep)
    /\ WF_vars(ActuatorAccept \/ ActuatorReject)
    /\ WF_vars(ActuatorFinish)

\* the third step has resolved, rclpy.shutdown() was called, main returned
NormalEnd ==
    /\ pc = "exited"
    /\ Len(results) = 3
    /\ shutdown_called
    /\ outcome = "returned"

\* C14 as claimed: every run that acquired a transform and has ended (here
\* even without an interrupt) ended after the third step resolved, with
\* shutdown and a normal return.
C14_AcquiredRunEndsAligned ==
    (pc = "exited" /\ trans_base # None /\ ~interrupted) => NormalEnd

\* C14 amended: from the moment the transform is acquired, the trajectory
\* server has been found and the context is not shut down, the run reaches
\* the normal end after the third step, whatever the statuses of the steps,
\* unless the operator interrupts.
C14_AlignmentCompletes ==
    (pc = "compute" /\ ok) ~> (interrupted \/ NormalEnd)

\* C14 witness: a normal end after a step that did not succeed
C14_Witness ==
    /\ NormalEnd
    /\ ~interrupted
    /\ results[2] = "ABORTED"

----------------------------------------------------------------------------
(* The timeout of the acquisition loop *)

FailedLookup == {"not_resolvable", "exception"}

\* C15: every failed lookup, of either kind, is followed by the comparison
\* of elapsed with timeout_sec; when that comparison finds elapsed >
\* timeout_sec the loop is left with no transform and the log as it stands,
\* otherwise the loop goes on; and once the loop has been left no lookup is
\* made.
C15_TimeoutCheckedEveryIteration ==
    /\ [][(pc = "lookup" /\ attempts' = attempts + 1
             /\ last_lookup' \in FailedLookup)
          => pc' = "check_timeout"]_vars
    /\ [][(pc = "check_timeout" /\ pc' # pc /\ ~interrupted')
          => IF elapsed > timeout_sec
             THEN /\ pc' = "after_loop"
                  /\ trans_base' = None
                  /\ missing' = missing
                  /\ Len(missing) = attempts
             ELSE pc' = "spin_once"]_vars
    /\ [][pc \notin AcqLoop => attempts' = attempts]_vars

\* C15 witness: the loop was left on the timeout after a lookup that found
\* the frame not resolvable
C15_Witness ==
    /\ pc = "after_loop"
    /\ trans_base = None
    /\ last_lookup = "not_resolvable"
    /\ elapsed > timeout_sec
    /\ ok
    /\ Len(missing) >= 2

----------------------------------------------------------------------------
(* The attempt log *)

\* the log that one entry per failed attempt, in attempt order, makes
RECURSIVE EntriesOf(_)
EntriesOf(ls) ==
    IF ls = << >> THEN << >>
    ELSE LET rest == EntriesOf(SubSeq(ls, 1, Len(ls) - 1))
             last == ls[Len(ls)]
         IN  CASE last = "not_resolvable" -> Append(rest, FrameEntry)
               [] last = "exception" -> Append(rest, ExceptionEntry)
               [] last = "found" -> rest

\* C16: the attempt log holds one entry for each failed lookup so far, in
\* attempt order: the frame pair for a lookup that was not resolvable,
\* "exception" for one that raised, nothing for one that succeeded; the two
\* kinds of entry differ.
C16_LogMatchesAttempts ==
    /\ Len(lookups) = attempts
    /\ missing = EntriesOf(lookups)
    /\ FrameEntry # ExceptionEntry

\* C16 witness: an unresolvable lookup, one that raised, then a success
C16_Witness ==
    /\ lookups = << "not_resolvable", "exception", "found" >>
    /\ missing = << FrameEntry, ExceptionEntry >>

----------------------------------------------------------------------------
(* The transform, the offset and the correction during alignment *)

\* C17: from hand-over on, the transform held by the AlignToAruco object is
\* the one the lookup returned and its offset the configured one, whatever
\* steps and answers have followed; the correction is the one computed from
\* them, and every goal sent carries its value.
C17_InputsUntouched ==
    align # None =>
        /\ align.trans_base = marker
        /\ trans_base = marker
        /\ align.offset = DefaultOffset
        /\ correction # None =>
              /\ correction = compute_difference(marker, DefaultOffset)
              /\ \A k \in 1..Len(goals) :
                    goals[k].cmd.inc =
                        << correction.phi, correction.dist,
                           correction.theta >>[goals[k].call]

\* C17 witness: the run has ended after three steps, one of them rejected
\* and one aborted
C17_Witness ==
    /\ pc = "exited"
    /\ Len(results) = 3
    /\ \E k \in 1..3 : results[k] = "rejected"
    /\ \E k \in 1..3 : results[k] = "ABORTED"
    /\ align.trans_base = marker

----------------------------------------------------------------------------
(* Ends of a run without motion *)

\* C18: when wait_for_server fails after a transform was acquired, no goal
\* is ever sent and the SystemExit passes through the finally clause:
\* the process has ended only after rclpy.shutdown() was called.
C18_NoServerStillShutsDown ==
    exc = "SystemExit" =>
        /\ trans_base # None
        /\ goals = << >>
        /\ correction = None
        /\ pc \in {"finally", "exited"}
        /\ pc = "exited" => (shutdown_called /\ outcome = "SystemExit")

\* C18 witness: the process has ended on the sys.exit() of the constructor
C18_Witness ==
    /\ exc = "SystemExit"
    /\ pc = "exited"
    /\ shutdown_called
    /\ ~interrupted
    /\ align # None

\* the loop has been left with no transform (and no interrupt)
AcquisitionFailed ==
    /\ trans_base = None
    /\ \/ pc = "after_loop"
       \/ outcome = "timeout_return"

\* C19 as claimed: the loop ends without a transform, and the run is
\* reported as a timeout, only when elapsed exceeded timeout_sec.
C19_FailsOnlyOnTimeout ==
    AcquisitionFailed => elapsed > timeout_sec

\* C19 amended: the loop ends without a transform only when the elapsed
\* time measured after a failed attempt exceeded timeout_sec, or when
\* rclpy.ok() was false at the head of the loop.
C19_FailsOnTimeoutOrShutdown ==
    AcquisitionFailed =>
        \/ /\ elapsed > timeout_sec
           /\ attempts >= 1
           /\ last_lookup \in FailedLookup
        \/ ~ok

\* C19 witness: a run reported as a timeout, within the timeout, after the
\* context was shut down
C19_Witness ==
    /\ outcome = "timeout_return"
    /\ ~ok
    /\ elapsed <= timeout_sec
    /\ Len(missing) >= 1

====
